---- MODULE Spec2Model ----
(***************************************************************************)
(* Model of experiments_segmentation/run_eval_superpixels.py: parameter    *)
(* resolution (arg_parse_params), the per-pair evaluation callback         *)
(* (compute_boundary_distance) and the aggregation loop and export (main). *)
(* Paths and file names are sequences of one-character strings, so that    *)
(* os.path and the % formatting are computed rather than assumed.          *)
(* The collaborators that live outside this file (update_path, the pair    *)
(* discovery, the worker pool) are modelled from their documented          *)
(* contract.                                                               *)
(***************************************************************************)
EXTENDS Integers, Sequences, FiniteSets, TLC

(* ------------------------------- bounds -------------------------------- *)
MaxFiles == 2      \* file stems "1".."MaxFiles" may exist in each location
MaxWorkers == 2    \* nb_workers ranges over 1..MaxWorkers
MaxRegul == 4      \* slic_regul ranges over 0/128 .. MaxRegul/128 (and the default)
MaxRuns == 2       \* runs into one output directory (repeated-run specification)

(* --------------------------- program constants ------------------------- *)
DefaultSlicSize == 20
RegulDen == 2 ^ 7                  \* slic_regul = n / RegulDen, exact in binary
DefaultSlicRegul == RegulDen \div 4   \* 0.25
DefaultSlico == FALSE

(* ------------------------------ characters ----------------------------- *)
DigitChar == <<"0", "1", "2", "3", "4", "5", "6", "7", "8", "9">>

RECURSIVE Digits(_)
Digits(n) ==
    IF n < 10 THEN <<DigitChar[n + 1]>>
    ELSE Digits(n \div 10) \o <<DigitChar[(n % 10) + 1]>>

\* '%i' % n
FmtInt(n) == IF n < 0 THEN <<"-">> \o Digits(0 - n) ELSE Digits(n)

\* '%i' % flag  (a bool prints as 0 / 1)
FmtBool(b) == FmtInt(IF b THEN 1 ELSE 0)

\* hundredths nearest to n / RegulDen, ties to even (correctly rounded %.2f)
RoundHundredths(n) ==
    LET q == (n * 100) \div RegulDen
        r == (n * 100) % RegulDen
    IN  IF 2 * r > RegulDen THEN q + 1
        ELSE IF 2 * r < RegulDen THEN q
        ELSE IF q % 2 = 0 THEN q ELSE q + 1

\* variant: one decimal place ('%.1f' on the truncated hundredths)
FmtFloat1(n) ==
    LET h == RoundHundredths(n)
    IN  Digits(h \div 100) \o <<".">> \o <<DigitChar[((h \div 10) % 10) + 1]>>

\* '%.2f' % (n / RegulDen), n >= 0
FmtFloat2(n) ==
    LET h == RoundHundredths(n)
    IN  Digits(h \div 100) \o <<".">> \o
        <<DigitChar[((h \div 10) % 10) + 1], DigitChar[(h % 10) + 1]>>

\* NAME_CSV_DISTANCES % (size, regul, slico); the literal text of the format
\* is kept in whole chunks, each conversion is spelled out in characters
NAME_CSV_DISTANCES(size, regul, slico) ==
    <<"measured_boundary_distances_SLIC_size-">> \o FmtInt(size)
      \o <<"_regul-">> \o FmtFloat2(regul)
      \o <<"_slico-">> \o FmtBool(slico)
      \o <<".csv">>

(* -------------------------------- os.path ------------------------------ *)
Contains(s, c) == \E i \in 1..Len(s) : s[i] = c

\* s.rfind(c) + 1  (0 when absent)
RFind(s, c) ==
    IF Contains(s, c)
    THEN CHOOSE i \in 1..Len(s) : s[i] = c /\ \A j \in (i + 1)..Len(s) : s[j] # c
    ELSE 0

RECURSIVE RStripSlash(_)
RStripSlash(s) ==
    IF s # <<>> /\ s[Len(s)] = "/" THEN RStripSlash(SubSeq(s, 1, Len(s) - 1)) ELSE s

\* posixpath.dirname
dirname(p) ==
    LET head == SubSeq(p, 1, RFind(p, "/"))
    IN  IF head # <<>> /\ (\E i \in 1..Len(head) : head[i] # "/")
        THEN RStripSlash(head) ELSE head

\* posixpath.basename
basename(p) == SubSeq(p, RFind(p, "/") + 1, Len(p))

\* posixpath.splitext: <<root, ext>>; leading dots of the name are no extension
splitext(p) ==
    LET sep == RFind(p, "/")
        dot == RFind(p, ".")
    IN  IF dot > sep /\ (\E i \in (sep + 1)..(dot - 1) : p[i] # ".")
        THEN <<SubSeq(p, 1, dot - 1), SubSeq(p, dot, Len(p))>>
        ELSE <<p, <<>>>>

\* posixpath.join(a, b)
join(a, b) ==
    IF b # <<>> /\ b[1] = "/" THEN b
    ELSE IF a = <<>> \/ a[Len(a)] = "/" THEN a \o b
    ELSE a \o <<"/">> \o b

(* ------------------------------ file system ---------------------------- *)
ImagePath(i) == <<"/", "i", "/">> \o Digits(i) \o <<".", "j", "p", "g">>
AltImagePath(i) == <<"/", "i", "/">> \o Digits(i) \o <<".", "p", "n", "g">>
SegmPath(i) == <<"/", "s", "/">> \o Digits(i) \o <<".", "p", "n", "g">>

DirRoot == <<"/">>
DirImages == <<"/", "i">>
DirSegms == <<"/", "s">>
DirOut == <<"/", "o">>
Dirs == {DirRoot, DirImages, DirSegms, DirOut}

\* values the command line may give
PathImagesOpts ==
    { DirImages \o <<"/", "*", ".", "j", "p", "g">>,
      DirImages \o <<"/", "*">>,
      <<"/", "n", "/", "*", ".", "j", "p", "g">>,
      ImagePath(1) }
PathSegmsOpts ==
    { DirSegms \o <<"/", "*", ".", "p", "n", "g">>,
      <<"/", "n", "/", "*", ".", "p", "n", "g">> }
PathOutOpts == { <<>>, DirOut, <<"/", "x">>, <<"o">> }

\* outputs of the external segmentation / boundary-distance routines
SampleDists == { <<>>, <<0>>, <<1, 2>> }
Outcomes == [fail : {TRUE}, dists : {<<>>}] \cup [fail : {FALSE}, dists : SampleDists]

VARIABLES
    argv,        \* parsed command line, before path resolution
    files,       \* input files present on disk
    oracle,      \* per image: what loading + segmentation + distances yield
    params,      \* the params dict
    pc,          \* position of the main script
    err,         \* the exception that ended the run, if any
    log,         \* logging.info messages, in order
    stats,       \* what df_dist.describe() logged
    df_paths,    \* pair table
    df_dist,     \* result table
    inflight,    \* rows being evaluated by a worker
    results,     \* rows evaluated and not yet yielded
    consumed,    \* rows whose result the loop in main has received
    jpg_writes,  \* visualisations saved: [path, row]
    csv_writes,  \* summary tables saved, in order, all runs
    run          \* number of the current run into the output directory

vars == <<argv, files, oracle, params, pc, err, log, stats, df_paths, df_dist,
          inflight, results, consumed, jpg_writes, csv_writes, run>>

\* os.path.isdir / os.path.exists
isdir(p) == p \in Dirs
exists(p) == p \in Dirs \/ p \in files

\* tl_data.update_path: an absolute path is kept; a relative one is resolved
\* against the root when it exists there, and kept otherwise
update_path(p) ==
    IF p # <<>> /\ p[1] = "/" THEN p
    ELSE IF p # <<>> /\ exists(join(DirRoot, p)) THEN join(DirRoot, p)
    ELSE p

(* --------------------------- parameter resolution ---------------------- *)
\* variant: the annotation pattern is not among the checked keys
PathKeysNoSegms == <<"path_images", "path_out">>

\* the keys of params with 'path' in them, in the order the options are added
PathKeys == <<"path_images", "path_segms", "path_out">>

AssertionError(k, p) == [kind |-> "AssertionError", key |-> k, path |-> p]

\* the path the assertion is about: the directory part of a pattern, else the path
CheckedPath(v) == IF Contains(v, "*") THEN dirname(v) ELSE v

\* the loop over the path options of arg_parse_params; stops at the first
\* failed assertion
RECURSIVE ResolvePaths(_, _)
ResolvePaths(ps, keys) ==
    IF keys = <<>> THEN [params |-> ps, err |-> <<>>]
    ELSE LET k == Head(keys)
             v == update_path(ps[k])
         IN  IF k = "path_out" /\ ~isdir(v)
             THEN ResolvePaths([ps EXCEPT ![k] = <<>>], Tail(keys))
             ELSE IF exists(CheckedPath(v))
             THEN ResolvePaths([ps EXCEPT ![k] = v], Tail(keys))
             ELSE [params |-> [ps EXCEPT ![k] = v],
                   err |-> <<AssertionError(k, CheckedPath(v))>>]

arg_parse_params(ps) == ResolvePaths(ps, PathKeys)

(* ------------------------------ pair discovery ------------------------- *)
RECURSIVE Match(_, _)
Match(pat, s) ==
    IF pat = <<>> THEN s = <<>>
    ELSE IF Head(pat) = "*"
    THEN \E k \in 0..Len(s) : Match(Tail(pat), SubSeq(s, k + 1, Len(s)))
    ELSE s # <<>> /\ Head(s) = Head(pat) /\ Match(Tail(pat), Tail(s))

Glob(pattern) ==
    {f \in files : dirname(f) = dirname(pattern)
                   /\ Match(basename(pattern), basename(f))}

\* variant: the extension is taken instead of the root ([1] for [0])
NameExt(path) == splitext(basename(path))[2]

\* name = os.path.splitext(os.path.basename(path))[0]
Name(path) == splitext(basename(path))[1]

RECURSIVE SetToSeq(_)
SetToSeq(S) ==
    IF S = {} THEN <<>>
    ELSE LET x == CHOOSE x \in S : TRUE IN <<x>> \o SetToSeq(S \ {x})

\* the join key of the discovery: the file name without directory and extension
BaseName(f) == splitext(basename(f))[1]

Ambiguous(fs) == \E f, g \in fs : f # g /\ BaseName(f) = BaseName(g)

\* find_files_match_names_across_dirs: one row per base name present in both
\* locations; raises when a location has no file or a base name is ambiguous
DiscoveryRaises(list_paths) ==
    \/ Glob(list_paths[1]) = {} \/ Glob(list_paths[2]) = {}
    \/ Ambiguous(Glob(list_paths[1])) \/ Ambiguous(Glob(list_paths[2]))

find_files_match_names_across_dirs(list_paths) ==
    SetToSeq({ [path_image |-> f, path_segm |-> g] :
               <<f, g>> \in { fg \in Glob(list_paths[1]) \X Glob(list_paths[2]) :
                              BaseName(fg[1]) = BaseName(fg[2]) } })

(* ------------------------------- result table -------------------------- *)
NaN == [num |-> 0, den |-> 0]

RECURSIVE Sum(_)
Sum(d) == IF d = <<>> THEN 0 ELSE Head(d) + Sum(Tail(d))

RECURSIVE GCD(_, _)
GCD(a, b) == IF b = 0 THEN a ELSE GCD(b, a % b)

\* np.mean(dists) as a reduced fraction; the mean of no value is nan
Mean(d) ==
    IF d = <<>> THEN NaN
    ELSE LET g == GCD(Len(d), Sum(d))
         IN  [num |-> Sum(d) \div g, den |-> Len(d) \div g]

\* pd.DataFrame()
EmptyDataFrame == [columns |-> {}, index |-> "range", rows |-> <<>>]

\* variant: the row is appended to a new frame each time
DfAppendReplace(df, name, dist) ==
    [columns |-> {"name", "mean boundary distance"}, index |-> "range",
     rows |-> <<[name |-> name, dist |-> dist]>>]

\* variant: the result of append is dropped (append is not in place)
DfAppendDropped(df, name, dist) == df

\* df.append({'name': ..., 'mean boundary distance': ...}, ignore_index=True)
DfAppend(df, name, dist) ==
    [df EXCEPT !.columns = @ \cup {"name", "mean boundary distance"},
               !.rows = Append(@, [name |-> name, dist |-> dist])]

\* df.set_index(col) raises KeyError when col is no column
SetIndexRaises(df, col) == col \notin df.columns
SetIndex(df, col) == [df EXCEPT !.index = col, !.columns = @ \ {col}]

\* df.describe(): count leaves out the not-a-number values
Describe(df) ==
    [count |-> Cardinality({i \in 1..Len(df.rows) : df.rows[i].dist # NaN}),
     columns |-> df.columns]

(* ---------------------------- per-pair evaluation ---------------------- *)
Rows == 1..Len(df_paths)

JpgPath(path_out, name) == join(path_out, name \o <<".", "j", "p", "g">>)

\* variant: a failure is caught in the callback and reported as not-a-number
EvalResultRecover(row) ==
    LET name == Name(row.path_image)
        out == oracle[row.path_image]
    IN  IF out.fail THEN [ok |-> TRUE, name |-> name, dist |-> NaN]
        ELSE [ok |-> TRUE, name |-> name, dist |-> Mean(out.dists)]

\* variant: an empty list of distances is an error
EvalResultEmptyRaises(row) ==
    LET name == Name(row.path_image)
        out == oracle[row.path_image]
    IN  IF out.fail \/ out.dists = <<>> THEN [ok |-> FALSE, name |-> name, dist |-> NaN]
        ELSE [ok |-> TRUE, name |-> name, dist |-> Mean(out.dists)]

\* compute_boundary_distance(idx_row, params, path_out): what it returns
\* (ok = FALSE when loading, segmentation or the distances raise)
EvalResult(row) ==
    LET name == Name(row.path_image)
        out == oracle[row.path_image]
    IN  IF out.fail THEN [ok |-> FALSE, name |-> name, dist |-> NaN]
        ELSE [ok |-> TRUE, name |-> name, dist |-> Mean(out.dists)]

\* ... and the figure it saves on the way
EvalWrites(i, row, path_out) ==
    IF ~oracle[row.path_image].fail /\ isdir(path_out)
    THEN {[path |-> JpgPath(path_out, Name(row.path_image)), row |-> i, run |-> run]}
    ELSE {}

(* ------------------------------- initial state ------------------------- *)
FileSets ==
    { imgs \cup alt \cup segs :
        imgs \in SUBSET {ImagePath(i) : i \in 1..MaxFiles},
        alt \in SUBSET {AltImagePath(1)},
        segs \in SUBSET {SegmPath(i) : i \in 1..MaxFiles} }

\* the images a pair table can hold, given the files on disk
PairImages(fs) ==
    {f \in fs : /\ dirname(f) = DirImages
                /\ \E g \in fs : dirname(g) = DirSegms /\ BaseName(g) = BaseName(f)}

Argv(pi, psg, po, nw, size, regul, slico) ==
    [path_images |-> pi, path_segms |-> psg, path_out |-> po, nb_workers |-> nw,
     slic_size |-> size, slic_regul |-> regul, slico |-> slico]

Fresh ==
    /\ params = argv
    /\ pc = "start"
    /\ err = <<>>
    /\ log = <<>>
    /\ stats = <<>>
    /\ df_paths = <<>>
    /\ df_dist = EmptyDataFrame
    /\ inflight = {}
    /\ results = <<>>
    /\ consumed = {}

Init ==
    /\ files \in FileSets
    /\ oracle \in [PairImages(files) -> Outcomes]
    /\ \E pi \in PathImagesOpts, psg \in PathSegmsOpts, po \in PathOutOpts,
          nw \in 1..MaxWorkers :
          argv = Argv(pi, psg, po, nw, DefaultSlicSize, DefaultSlicRegul, DefaultSlico)
    /\ Fresh
    /\ jpg_writes = {}
    /\ csv_writes = <<>>
    /\ run = 1

(* ---------------------------------- actions ---------------------------- *)
\* __main__ up to the return of arg_parse_params
ArgParseParams ==
    /\ pc = "start"
    /\ LET r == arg_parse_params(argv)
       IN  /\ params' = r.params
           /\ err' = r.err
           /\ pc' = IF r.err = <<>> THEN "parsed" ELSE "error"
    /\ log' = log \o <<"running...", "ARG PARAMETERS">>
    /\ UNCHANGED <<argv, files, oracle, stats, df_paths, df_dist, inflight,
                   results, consumed, jpg_writes, csv_writes, run>>

\* main, from its first line to the creation of the iterator over the pairs
MainBegin ==
    /\ pc = "parsed"
    /\ log' = IF isdir(params.path_out)
              THEN Append(log, "Missing output dir -> no visual export & results table.")
              ELSE log
    /\ LET list_paths == <<params.path_images, params.path_segms>>
       IN  IF DiscoveryRaises(list_paths)
           THEN /\ pc' = "error"
                /\ err' = <<[kind |-> "DiscoveryError", key |-> "", path |-> <<>>]>>
                /\ UNCHANGED df_paths
           ELSE /\ pc' = "iterate"
                /\ df_paths' = find_files_match_names_across_dirs(list_paths)
                /\ UNCHANGED err
    /\ df_dist' = EmptyDataFrame
    /\ UNCHANGED <<argv, files, oracle, params, stats, inflight, results, consumed,
                   jpg_writes, csv_writes, run>>

Pending == Rows \ (inflight \cup DOMAIN results \cup consumed)

\* WrapExecuteSequence hands row i to a free worker; with one worker the rows
\* are evaluated one at a time, in table order, as the loop asks for them
PoolStart(i) ==
    /\ pc = "iterate"
    /\ i \in Pending
    /\ Cardinality(inflight) < params.nb_workers
    /\ params.nb_workers = 1 =>
          /\ DOMAIN results = {}
          /\ \A j \in Pending : i <= j
    /\ inflight' = inflight \cup {i}
    /\ UNCHANGED <<argv, files, oracle, params, pc, err, log, stats, df_paths,
                   df_dist, results, consumed, jpg_writes, csv_writes, run>>

\* a worker runs compute_boundary_distance on row i
WorkerEval(i) ==
    /\ i \in inflight
    /\ inflight' = inflight \ {i}
    /\ results' = [j \in DOMAIN results \cup {i} |->
                     IF j = i THEN EvalResult(df_paths[i]) ELSE results[j]]
    /\ jpg_writes' = jpg_writes \cup EvalWrites(i, df_paths[i], params.path_out)
    /\ UNCHANGED <<argv, files, oracle, params, pc, err, log, stats, df_paths,
                   df_dist, consumed, csv_writes, run>>

\* one turn of 'for name, dist in iterate': the pool yields the result of row i
Consume(i) ==
    /\ pc = "iterate"
    /\ i \in DOMAIN results
    /\ results' = [j \in DOMAIN results \ {i} |-> results[j]]
    /\ IF results[i].ok
       THEN /\ df_dist' = DfAppend(df_dist, results[i].name, results[i].dist)
            /\ consumed' = consumed \cup {i}
            /\ UNCHANGED <<pc, err>>
       ELSE /\ pc' = "error"
            /\ err' = <<[kind |-> "EvalError", key |-> "",
                         path |-> df_paths[i].path_image]>>
            /\ UNCHANGED <<df_dist, consumed>>
    /\ UNCHANGED <<argv, files, oracle, params, log, stats, df_paths, inflight,
                   jpg_writes, csv_writes, run>>

CsvWrite(ps, df) ==
    [path |-> join(ps.path_out,
                   NAME_CSV_DISTANCES(ps.slic_size, ps.slic_regul, ps.slico)),
     rows |-> df.rows, index |-> df.index, run |-> run,
     slic_size |-> ps.slic_size, slic_regul |-> ps.slic_regul, slico |-> ps.slico]

\* main after the loop: set_index, to_csv, the statistics
MainFinish ==
    /\ pc = "iterate"
    /\ consumed = Rows
    /\ IF SetIndexRaises(df_dist, "name")
       THEN /\ pc' = "error"
            /\ err' = <<[kind |-> "KeyError", key |-> "name", path |-> <<>>]>>
            /\ UNCHANGED <<df_dist, csv_writes, log, stats>>
       ELSE /\ pc' = "returned"
            /\ df_dist' = SetIndex(df_dist, "name")
            /\ csv_writes' = IF isdir(params.path_out)
                             THEN Append(csv_writes, CsvWrite(params, df_dist'))
                             ELSE csv_writes
            /\ log' = Append(log, "STATISTIC:")
            /\ stats' = <<Describe(df_dist')>>
            /\ UNCHANGED err
    /\ UNCHANGED <<argv, files, oracle, params, df_paths, inflight, results,
                   consumed, jpg_writes, run>>

\* __main__ after main returned
Done ==
    /\ pc = "returned"
    /\ pc' = "done"
    /\ log' = Append(log, "DONE")
    /\ UNCHANGED <<argv, files, oracle, params, err, stats, df_paths, df_dist,
                   inflight, results, consumed, jpg_writes, csv_writes, run>>

Next ==
    \/ ArgParseParams
    \/ MainBegin
    \/ \E i \in Rows : PoolStart(i)
    \/ \E i \in Rows : WorkerEval(i)
    \/ \E i \in Rows : Consume(i)
    \/ MainFinish
    \/ Done

Spec == Init /\ [][Next]_vars

(* ------------------- repeated runs into one output directory ----------- *)
SlicSizes == {DefaultSlicSize, DefaultSlicSize + 1}
SlicReguls == (0..MaxRegul) \cup {DefaultSlicRegul}

InitRuns ==
    /\ files = {ImagePath(i) : i \in 1..MaxFiles} \cup {SegmPath(i) : i \in 1..MaxFiles}
    /\ oracle \in [PairImages(files) -> [fail : {FALSE}, dists : {<<1, 2>>}]]
    /\ \E size \in SlicSizes, regul \in SlicReguls, slico \in BOOLEAN :
          argv = Argv(DirImages \o <<"/", "*", ".", "j", "p", "g">>,
                      DirSegms \o <<"/", "*", ".", "p", "n", "g">>,
                      DirOut, 1, size, regul, slico)
    /\ Fresh
    /\ jpg_writes = {}
    /\ csv_writes = <<>>
    /\ run = 1

\* the script is started again with other segmentation parameters; the files
\* written by the earlier runs stay in the output directory
Rerun ==
    /\ pc = "done"
    /\ run < MaxRuns
    /\ run' = run + 1
    /\ \E size \in SlicSizes, regul \in SlicReguls, slico \in BOOLEAN :
          argv' = [argv EXCEPT !.slic_size = size, !.slic_regul = regul,
                               !.slico = slico]
    /\ params' = argv'
    /\ pc' = "start"
    /\ err' = <<>>
    /\ log' = <<>>
    /\ stats' = <<>>
    /\ df_paths' = <<>>
    /\ df_dist' = EmptyDataFrame
    /\ inflight' = {}
    /\ results' = <<>>
    /\ consumed' = {}
    /\ UNCHANGED <<files, oracle, jpg_writes, csv_writes>>

NextRuns ==
    \/ ArgParseParams
    \/ MainBegin
    \/ \E i \in Rows : PoolStart(i)
    \/ \E i \in Rows : WorkerEval(i)
    \/ \E i \in Rows : Consume(i)
    \/ MainFinish
    \/ Done
    \/ Rerun

SpecRuns == InitRuns /\ [][NextRuns]_vars

(* ================================ properties =========================== *)
Notice == "Missing output dir -> no visual export & results table."
InLog(m) == \E k \in 1..Len(log) : log[k] = m
ErrKind == IF err = <<>> THEN "" ELSE err[1].kind
RowSet(rows) == {rows[k] : k \in 1..Len(rows)}
CsvOfRun == {k \in 1..Len(csv_writes) : csv_writes[k].run = run}
JpgOfRun == {w \in jpg_writes : w.run = run}
Returned == pc \in {"returned", "done"}
\* the table the pairs determine, whatever the order and the number of workers
ExpectedRows ==
    { [name |-> BaseName(df_paths[i].path_image),
       dist |-> Mean(oracle[df_paths[i].path_image].dists)] : i \in Rows }
TableOrderNames == [i \in Rows |-> BaseName(df_paths[i].path_image)]

\* C1: when main has returned, the result table holds exactly the rows
\* (name, mean boundary distance) that the pair table and the parameters
\* determine, one per pair, whether nb_workers is 1 or more and whatever the
\* order in which the pool yielded the results.
C1_SameRowsAnyWorkers ==
    Returned =>
        /\ RowSet(df_dist.rows) = ExpectedRows
        /\ Len(df_dist.rows) = Len(df_paths)

\* a run with several workers ended with the rows in another order than the pairs
C1_Witness ==
    /\ pc = "done"
    /\ params.nb_workers > 1
    /\ Len(df_dist.rows) >= 2
    /\ \E k \in 1..Len(df_dist.rows) : df_dist.rows[k].name # TableOrderNames[k]

\* C2 (as claimed): after a discovery that found no pair, the run does not end
\* in an error: it reaches the statistics with an empty table.
C2_EmptyTableCompletes ==
    (df_paths = <<>> /\ ErrKind \notin {"AssertionError", "DiscoveryError"})
        => pc # "error"

\* arg_parse_params has returned
Parsed == pc # "start" /\ ErrKind # "AssertionError"

\* C3 (as claimed): when the output path is empty or no existing directory,
\* arg_parse_params returns with path_out reset to the empty string, no file
\* is written in the run that follows, and the run is not aborted by anything
\* but a failed discovery or a failed per-pair evaluation.
C3_NoOutputStillCompletes ==
    (~isdir(update_path(argv.path_out)) /\ Parsed) =>
        /\ params.path_out = <<>>
        /\ JpgOfRun = {}
        /\ CsvOfRun = {}
        /\ pc = "error" => ErrKind \in {"DiscoveryError", "EvalError"}

\* the part of C3 that is about the files only
C3_NoOutputNoFiles ==
    (~isdir(update_path(argv.path_out)) /\ Parsed) =>
        /\ params.path_out = <<>>
        /\ JpgOfRun = {}
        /\ CsvOfRun = {}

\* the path the check of option k is about, computed from the command line
InputCheckedPath(k) ==
    LET v == update_path(argv[k])
    IN  IF \E i \in 1..Len(v) : v[i] = "*" THEN dirname(v) ELSE v
InputMissing(k) == ~exists(InputCheckedPath(k))
FirstMissing ==
    IF InputMissing("path_images") THEN "path_images" ELSE "path_segms"

\* C4: when the checked path of path_images or path_segms does not exist,
\* parameter resolution ends the process with an assertion error that names
\* the option and the path, and no pair is discovered, no evaluation is
\* started and no file is written.
C4_MissingInputFailsFast ==
    ((InputMissing("path_images") \/ InputMissing("path_segms")) /\ pc # "start") =>
        /\ pc = "error"
        /\ err = <<AssertionError(FirstMissing, InputCheckedPath(FirstMissing))>>
        /\ df_paths = <<>>
        /\ inflight = {} /\ DOMAIN results = {} /\ consumed = {}
        /\ JpgOfRun = {} /\ CsvOfRun = {}
        /\ ~InLog("STATISTIC:") /\ ~InLog("DONE")

\* the images exist and the annotation directory does not
C4_Witness ==
    /\ pc = "error"
    /\ ~InputMissing("path_images")
    /\ err = <<AssertionError("path_segms", <<"/", "n">>)>>

\* C5: once the result of a failed evaluation reached the loop, the run has
\* ended in that error: no summary file was written, neither the statistics
\* nor DONE is logged; and a run that returned had no failing pair.
C5_FailureIsFatal ==
    /\ ErrKind = "EvalError" =>
          /\ pc = "error"
          /\ oracle[err[1].path].fail
          /\ CsvOfRun = {}
          /\ stats = <<>>
          /\ ~InLog("STATISTIC:") /\ ~InLog("DONE")
    /\ Returned => \A i \in Rows : ~oracle[df_paths[i].path_image].fail

\* a pair failed after another pair's result had been appended
C5_Witness ==
    /\ ErrKind = "EvalError"
    /\ Len(df_dist.rows) >= 1

\* C6 (as claimed): once main is past its first lines, the notice is in the
\* log exactly when path_out is not an existing directory.
C6_NoticeIffNoExport ==
    pc \in {"iterate", "returned", "done"} =>
        (InLog(Notice) <=> ~isdir(params.path_out))

\* C7: the result table is empty before the loop, has as many rows as
\* results were received, only ever grows by one row at its end; the summary
\* is written at most once, only after all pairs were received and the table
\* indexed by name, with one row per pair; a run that returned with a valid
\* output directory has written it once.
C7_State ==
    /\ pc \in {"start", "parsed"} => df_dist.rows = <<>>
    /\ Len(df_dist.rows) = Cardinality(consumed)
    /\ Cardinality(CsvOfRun) <= 1
    /\ \A k \in CsvOfRun :
          /\ consumed = Rows
          /\ csv_writes[k].index = "name"
          /\ Len(csv_writes[k].rows) = Len(df_paths)
          /\ csv_writes[k].rows = df_dist.rows
    /\ Returned => (isdir(params.path_out) <=> Cardinality(CsvOfRun) = 1)
C7_Step ==
    /\ Len(df_dist'.rows) \in {Len(df_dist.rows), Len(df_dist.rows) + 1}
    /\ SubSeq(df_dist'.rows, 1, Len(df_dist.rows)) = df_dist.rows
    /\ Len(csv_writes') >= Len(csv_writes)
    /\ SubSeq(csv_writes', 1, Len(csv_writes)) = csv_writes
C7_TableGrowsWrittenOnce == [](C7_State) /\ [][C7_Step]_vars

\* a run over two pairs wrote its summary
C7_Witness ==
    /\ pc = "done"
    /\ Cardinality(CsvOfRun) = 1
    /\ Len(df_paths) >= 2

TripleOf(w) == <<w.slic_size, w.slic_regul, w.slico>>
RoundedTripleOf(w) == <<w.slic_size, RoundHundredths(w.slic_regul), w.slico>>

\* C8 (as claimed): two summaries written with different (slic_size,
\* slic_regul, slico) have different file names.
C8_DifferentParamsDifferentNames ==
    \A a, b \in 1..Len(csv_writes) :
        TripleOf(csv_writes[a]) # TripleOf(csv_writes[b])
            => csv_writes[a].path # csv_writes[b].path

\* C8 (amended): two summaries have the same file name exactly when they
\* agree on slic_size, on slic_regul rounded to two decimal places and on
\* slico; the default parameters give size-20_regul-0.25_slico-0.
C8_NamesByRoundedParams ==
    /\ \A a, b \in 1..Len(csv_writes) :
          (csv_writes[a].path = csv_writes[b].path)
              <=> (RoundedTripleOf(csv_writes[a]) = RoundedTripleOf(csv_writes[b]))
    /\ \A a \in 1..Len(csv_writes) :
          TripleOf(csv_writes[a]) = <<20, RegulDen \div 4, FALSE>> =>
              csv_writes[a].path =
                  <<"/", "o", "/", "measured_boundary_distances_SLIC_size-",
                    "2", "0", "_regul-", "0", ".", "2", "5", "_slico-", "0", ".csv">>

\* two runs that differ in slic_regul only wrote two different files
C8_Witness ==
    \E a, b \in 1..Len(csv_writes) :
        /\ csv_writes[a].run # csv_writes[b].run
        /\ csv_writes[a].slic_size = csv_writes[b].slic_size
        /\ csv_writes[a].slico = csv_writes[b].slico
        /\ csv_writes[a].slic_regul # csv_writes[b].slic_regul
        /\ csv_writes[a].path # csv_writes[b].path

EmptyDistRows == {i \in Rows : /\ ~oracle[df_paths[i].path_image].fail
                               /\ oracle[df_paths[i].path_image].dists = <<>>}
NaNRow(i) == [name |-> BaseName(df_paths[i].path_image), dist |-> NaN]

\* C9: a pair with no boundary distance yields the row (name, nan): it is
\* never the error that ends the run, its row is in the result table once its
\* result was received, and in a run that returned it is in the summary
\* written (valid output directory) and under the statistics logged.
C9_NanIsNoError ==
    /\ ErrKind = "EvalError" =>
          \A i \in EmptyDistRows : df_paths[i].path_image # err[1].path
    /\ \A i \in EmptyDistRows \cap consumed : NaNRow(i) \in RowSet(df_dist.rows)
    /\ \A i \in EmptyDistRows : \A j \in DOMAIN results :
          j = i => results[j] = [ok |-> TRUE, name |-> NaNRow(i).name, dist |-> NaN]
    /\ (Returned /\ EmptyDistRows # {}) =>
          /\ \A i \in EmptyDistRows : NaNRow(i) \in RowSet(df_dist.rows)
          /\ InLog("STATISTIC:")
          /\ stats = <<[count |-> Len(df_dist.rows) - Cardinality(EmptyDistRows),
                        columns |-> {"mean boundary distance"}]>>
          /\ isdir(params.path_out) =>
                \A k \in CsvOfRun : \A i \in EmptyDistRows :
                    NaNRow(i) \in RowSet(csv_writes[k].rows)

\* a run with a nan row and an ordinary row finished and exported both
C9_Witness ==
    /\ pc = "done"
    /\ EmptyDistRows # {}
    /\ Len(df_dist.rows) > Cardinality(EmptyDistRows)
    /\ CsvOfRun # {}

\* C10: every visualisation is written into the output directory under
\* <base name of the pair's image>.jpg, and no file is written for two
\* different rows of the pair table.
C10_OneFilePerPair ==
    /\ \A w \in JpgOfRun :
          /\ isdir(params.path_out)
          /\ w.path = params.path_out \o <<"/">>
                        \o BaseName(df_paths[w.row].path_image) \o <<".", "j", "p", "g">>
    /\ \A v, w \in JpgOfRun : v.path = w.path => v.row = w.row

\* two workers were at work and two files are written
C10_Witness ==
    /\ params.nb_workers > 1
    /\ Cardinality(JpgOfRun) >= 2

====
